---- MODULE Spec2Model ----
(***************************************************************************)
(* Rotation / animation state machine of the vertical carousel             *)
(* (src/src/verticalCarousel.tsx).                                         *)
(*                                                                         *)
(* The component's state is the React state copiedItems, the two refs      *)
(* animationTimeout and isShowDefaultItemBefore, the props of the last     *)
(* render, the timers created by setTimeout that have neither fired nor    *)
(* been cleared, and the animations started on animatedTop whose           *)
(* completion callback has not run yet.  Every handler runs to completion  *)
(* (single-threaded event loop), so each handler is one action.            *)
(*                                                                         *)
(* The animation primitive is external to the component: an animation      *)
(* that was started completes exactly once, at any later moment.  A        *)
(* primitive that ends a running animation when a second one starts on     *)
(* the same value is the interleaving "Complete, then TimerFire" of this   *)
(* model.                                                                  *)
(***************************************************************************)
EXTENDS Integers, Sequences, FiniteSets, TLC

VARIABLES
    phase,                    \* "constructed" | "mounted" | "unmounted"
    items,                    \* prop items of the last render
    defaultItem,              \* prop defaultItem (NoItem when not supplied)
    isAnimationEnabled,       \* prop isAnimationEnabled
    startIndex,               \* prop startIndex
    copiedItems,              \* useState: the rotation window that is rendered
    animationTimeout,         \* ref: handle of the last timer armed, or NULL
    isShowDefaultItemBefore,  \* ref: the default item was shown
    timers,                   \* setTimeout handle -> closure of the callback
    anims,                    \* running animation -> closure of its callback
    onShowCall,               \* the onShow call made by the last step
    lastOp,                   \* history: the handler that ran in the last step
    calls,                    \* history: renders and handle calls by the owner
    advances                  \* history: completions since the last init that
                              \* called onShow, NoCycle after any other call

vars == <<phase, items, defaultItem, isAnimationEnabled, startIndex,
          copiedItems, animationTimeout, isShowDefaultItemBefore,
          timers, anims, onShowCall, lastOp, calls, advances>>

\* ---------------------------------------------------------------- bounds
MaxLen == 2          \* longest item collection
MaxStart == 2        \* largest startIndex prop
MaxNeg == 1          \* startIndex props go down to -MaxNeg
MaxCalls == 2        \* renders and handle calls after the mount
MaxCounter == 4      \* largest counter an animation may complete with

\* ---------------------------------------------------------------- values
NULL == 0
NoItem == "none"
NoCycle == -1
NoCall == [by |-> "none", item |-> NoItem, counter |-> 0]
AllItems == <<"A", "B", "C", "E">>
DefaultItems == {"D"}

\* item collections: distinct elements, none of them the default item
ItemLists == {SubSeq(AllItems, 1, n) : n \in 0..MaxLen}
StartIndexes == (0 - MaxNeg)..MaxStart

\* ------------------------------------------------------- JavaScript helpers
Min(a, b) == IF a < b THEN a ELSE b
Max(a, b) == IF a > b THEN a ELSE b

\* a % n of JavaScript for n > 0: the result has the sign of the dividend
JSRem(a, n) == IF a >= 0 THEN a % n ELSE 0 - ((0 - a) % n)

\* a slice whose negative indexes are clamped to 0
RelIndexClamped(k, len) == IF k < 0 THEN 0 ELSE Min(k, len)

\* Array.prototype.slice(start, end): negative indexes count from the end
RelIndex(k, len) == IF k < 0 THEN Max(len + k, 0) ELSE Min(k, len)
JSSlice(xs, start, end) ==
    SubSeq(xs, RelIndex(start, Len(xs)) + 1, RelIndex(end, Len(xs)))

\* Array.prototype.pop() for its effect on the array
JSPop(xs) == IF Len(xs) = 0 THEN xs ELSE SubSeq(xs, 1, Len(xs) - 1)

\* ------------------------------------------------------------ the handlers
\* the handle setTimeout returns: never one that is still known
FreshHandle(tm, h) ==
    CHOOSE i \in 1..(Cardinality(DOMAIN tm) + 2) :
        /\ i \notin DOMAIN tm
        /\ i # h
        /\ \A j \in 1..(i - 1) : j \in DOMAIN tm \/ j = h

FreshAnim ==
    CHOOSE i \in 1..(Cardinality(DOMAIN anims) + 1) :
        /\ i \notin DOMAIN anims
        /\ \A j \in 1..(i - 1) : j \in DOMAIN anims

Without(f, k) == [x \in DOMAIN f \ {k} |-> f[x]]
With(f, k, v) == [x \in DOMAIN f \cup {k} |-> IF x = k THEN v ELSE f[x]]

\* clear(): clearTimeout on the handle in the ref; the ref keeps the handle
clear(tm, h) == IF h # NULL THEN Without(tm, h) ELSE tm

\* startAnimation(lastItems, counter): arms a timer unless animation is off
\* (as captured by the closure) or there is at most one item to show
startAnimation(tm, h, lastItems, counter, enabled) ==
    IF ~enabled \/ Len(lastItems) <= 1
    THEN [timers |-> tm, handle |-> h]
    ELSE LET id == FreshHandle(tm, h)
         IN  [timers |-> With(tm, id, [lastItems |-> lastItems,
                                       counter |-> counter]),
              handle |-> id]

\* items.slice(_startIndex) ++ items.slice(0, _startIndex) with
\* _startIndex = startIndex % items.length; for an empty array the remainder
\* is NaN, which slice reads as 0
rotatedCopy(its, si) ==
    IF Len(its) = 0 THEN <<>>
    ELSE LET k == JSRem(si, Len(its))
         IN  JSSlice(its, k, Len(its)) \o JSSlice(its, 0, k)

\* init() without the isShowDefaultItemBefore test of the fallback branch
initNoFlagTest(its, si, di, en, tm, h, flag, win) ==
    LET tm0 == IF h # NULL THEN Without(tm, h) ELSE tm
        copy == rotatedCopy(its, si)
    IN  IF Len(its) = 0 /\ di # NoItem
        THEN [copiedItems |-> <<di>>, flag |-> TRUE, timers |-> tm0,
              handle |-> NULL, show |-> NoCall]
        ELSE IF Len(its) # 0 /\ di # NoItem /\ en
        THEN LET st == startAnimation(tm0, NULL, <<di>> \o copy,
                                      JSRem(si, Len(its)), en)
             IN  [copiedItems |-> <<di>> \o copy, flag |-> flag,
                  timers |-> st.timers, handle |-> st.handle,
                  show |-> NoCall]
        ELSE [copiedItems |-> win, flag |-> flag, timers |-> tm0,
              handle |-> NULL, show |-> NoCall]

\* init(): the state it leaves, from the props and the refs it finds
init(its, si, di, en, tm, h, flag, win) ==
    LET tm0 == IF h # NULL THEN Without(tm, h) ELSE tm
        copy == rotatedCopy(its, si)
    IN  IF Len(its) = 0 /\ di # NoItem
        THEN [copiedItems |-> <<di>>, flag |-> TRUE, timers |-> tm0,
              handle |-> NULL, show |-> NoCall]
        ELSE IF Len(its) # 0 /\ di # NoItem /\ en /\ flag
        THEN LET st == startAnimation(tm0, NULL, <<di>> \o copy,
                                      JSRem(si, Len(its)), en)
             IN  [copiedItems |-> <<di>> \o copy, flag |-> flag,
                  timers |-> st.timers, handle |-> st.handle,
                  show |-> NoCall]
        ELSE IF Len(its) # 0 /\ en
        THEN LET st == IF Len(its) > 1
                       THEN startAnimation(tm0, NULL, copy, si, en)
                       ELSE [timers |-> tm0, handle |-> NULL]
             IN  [copiedItems |-> copy, flag |-> flag,
                  timers |-> st.timers, handle |-> st.handle,
                  show |-> [by |-> "init", item |-> copy[1],
                            counter |-> si]]
        ELSE [copiedItems |-> win, flag |-> flag, timers |-> tm0,
              handle |-> NULL, show |-> NoCall]

\* the completion callback of beginAnimation(lastItems, counter); onShow is
\* supplied.  The startAnimation it calls is the one of the render that armed
\* the timer (useCallback closures), which saw isAnimationEnabled = true
afterAnimation(lastItems, counter, tm, h, flag) ==
    LET nextIndex == JSRem(counter + 1, Len(lastItems))
        shifted == JSSlice(lastItems, 1, Len(lastItems))
                   \o JSSlice(lastItems, 0, 1)
        shiftedItems == IF flag THEN JSPop(shifted) ELSE shifted
        st == IF Len(shiftedItems) > 1
              THEN startAnimation(tm, h, shiftedItems, counter + 1, TRUE)
              ELSE [timers |-> tm, handle |-> h]
    IN  [copiedItems |-> shiftedItems, flag |-> FALSE,
         timers |-> st.timers, handle |-> st.handle,
         show |-> [by |-> "completion", item |-> shiftedItems[1],
                   counter |-> IF flag THEN nextIndex - 1 ELSE nextIndex]]

\* ------------------------------------------------------------------ actions
Init ==
    /\ phase = "constructed"
    /\ items \in ItemLists
    /\ defaultItem \in DefaultItems \cup {NoItem}
    /\ isAnimationEnabled \in BOOLEAN
    /\ startIndex \in StartIndexes
    /\ copiedItems = <<>>
    /\ animationTimeout = NULL
    /\ isShowDefaultItemBefore = FALSE
    /\ timers = <<>>
    /\ anims = <<>>
    /\ onShowCall = NoCall
    /\ lastOp = "none"
    /\ calls = 0
    /\ advances = NoCycle

\* history: an init that calls onShow starts a cycle
Started(r) == IF r.show.by = "init" THEN 0 ELSE NoCycle

Apply(r, op) ==
    /\ copiedItems' = r.copiedItems
    /\ isShowDefaultItemBefore' = r.flag
    /\ timers' = r.timers
    /\ animationTimeout' = r.handle
    /\ onShowCall' = r.show
    /\ lastOp' = op

\* first render: the effect runs init()
Mount ==
    /\ phase = "constructed"
    /\ phase' = "mounted"
    /\ Apply(init(items, startIndex, defaultItem, isAnimationEnabled,
                  timers, animationTimeout, isShowDefaultItemBefore,
                  copiedItems), "mount")
    /\ advances' = Started(init(items, startIndex, defaultItem,
                                isAnimationEnabled, timers, animationTimeout,
                                isShowDefaultItemBefore, copiedItems))
    /\ UNCHANGED <<items, defaultItem, isAnimationEnabled, startIndex, anims,
                   calls>>

\* a render with a new items array: the effect's cleanup clear(), then init()
ItemsChange(its) ==
    /\ phase = "mounted"
    /\ calls < MaxCalls
    /\ calls' = calls + 1
    /\ LET r == init(its, startIndex, defaultItem, isAnimationEnabled,
                     clear(timers, animationTimeout), animationTimeout,
                     isShowDefaultItemBefore, copiedItems)
       IN  Apply(r, "items") /\ advances' = Started(r)
    /\ items' = its
    /\ UNCHANGED <<phase, defaultItem, isAnimationEnabled, startIndex, anims>>

\* a render with isAnimationEnabled changed: no effect runs (the effect
\* depends on [items]); startIndex and defaultItem keep their first values
PropsChange(en) ==
    /\ phase = "mounted"
    /\ calls < MaxCalls
    /\ calls' = calls + 1
    /\ en # isAnimationEnabled
    /\ isAnimationEnabled' = en
    /\ UNCHANGED <<startIndex, defaultItem>>
    /\ onShowCall' = NoCall
    /\ lastOp' = "props"
    /\ advances' = NoCycle
    /\ UNCHANGED <<phase, items, copiedItems, animationTimeout,
                   isShowDefaultItemBefore, timers, anims>>

\* ref.startOver(): clear(); init()
onStartOver ==
    /\ phase = "mounted"
    /\ calls < MaxCalls
    /\ calls' = calls + 1
    /\ LET r == init(items, startIndex, defaultItem, isAnimationEnabled,
                     clear(timers, animationTimeout), animationTimeout,
                     isShowDefaultItemBefore, copiedItems)
       IN  Apply(r, "startOver") /\ advances' = Started(r)
    /\ UNCHANGED <<phase, items, defaultItem, isAnimationEnabled, startIndex,
                   anims>>

\* ref.clear() that also empties the window
ClearResetsWindow ==
    /\ phase = "mounted"
    /\ calls < MaxCalls
    /\ calls' = calls + 1
    /\ timers' = clear(timers, animationTimeout)
    /\ copiedItems' = <<>>
    /\ onShowCall' = NoCall
    /\ lastOp' = "clear"
    /\ advances' = NoCycle
    /\ UNCHANGED <<phase, items, defaultItem, isAnimationEnabled, startIndex,
                   animationTimeout, isShowDefaultItemBefore, anims>>

\* ref.clear()
Clear ==
    /\ phase = "mounted"
    /\ calls < MaxCalls
    /\ calls' = calls + 1
    /\ timers' = clear(timers, animationTimeout)
    /\ onShowCall' = NoCall
    /\ lastOp' = "clear"
    /\ advances' = NoCycle
    /\ UNCHANGED <<phase, items, defaultItem, isAnimationEnabled, startIndex,
                   copiedItems, animationTimeout, isShowDefaultItemBefore,
                   anims>>

\* unmount: the effect's cleanup clear()
Unmount ==
    /\ phase = "mounted"
    /\ calls < MaxCalls
    /\ calls' = calls + 1
    /\ phase' = "unmounted"
    /\ timers' = clear(timers, animationTimeout)
    /\ onShowCall' = NoCall
    /\ lastOp' = "unmount"
    /\ advances' = NoCycle
    /\ UNCHANGED <<items, defaultItem, isAnimationEnabled, startIndex,
                   copiedItems, animationTimeout, isShowDefaultItemBefore,
                   anims>>

\* a timer fires: the ref is nulled and beginAnimation starts the animation
beginAnimation(t) ==
    /\ t \in DOMAIN timers
    /\ timers' = Without(timers, t)
    /\ animationTimeout' = NULL
    /\ anims' = With(anims, FreshAnim, timers[t])
    /\ onShowCall' = NoCall
    /\ lastOp' = "timer"
    /\ UNCHANGED <<phase, items, defaultItem, isAnimationEnabled, startIndex,
                   copiedItems, isShowDefaultItemBefore, calls, advances>>

\* an animation completes: its callback shifts the window and re-arms
AnimationDone(a) ==
    /\ a \in DOMAIN anims
    /\ anims[a].counter < MaxCounter
    /\ anims' = Without(anims, a)
    /\ Apply(afterAnimation(anims[a].lastItems, anims[a].counter, timers,
                            animationTimeout, isShowDefaultItemBefore),
             "done")
    /\ advances' = IF advances # NoCycle /\ advances < Len(items)
                   THEN advances + 1 ELSE NoCycle
    /\ UNCHANGED <<phase, items, defaultItem, isAnimationEnabled, startIndex,
                   calls>>

Next ==
    \/ Mount
    \/ \E its \in ItemLists : ItemsChange(its)
    \/ \E en \in BOOLEAN : PropsChange(en)
    \/ onStartOver
    \/ Clear
    \/ Unmount
    \/ \E t \in DOMAIN timers : beginAnimation(t)
    \/ \E a \in DOMAIN anims : AnimationDone(a)

Spec == Init /\ [][Next]_vars

\* ---------------------------------------------------- rotation without end
\* The counter of a chain grows by one per completion, without bound.  A
\* completion uses it only in (counter + 1) % lastItems.length, which is the
\* same for counter and counter - lastItems.length when both are >= 0: here
\* a counter that passes MaxCounter is taken down by the window length, so
\* that windows and onShow calls are those of the unbounded counter.
Folded(tm) ==
    [t \in DOMAIN tm |->
        IF tm[t].counter > MaxCounter
        THEN [lastItems |-> tm[t].lastItems,
              counter |-> tm[t].counter - Len(tm[t].lastItems)]
        ELSE tm[t]]

AnimationDoneCyclic(a) ==
    /\ a \in DOMAIN anims
    /\ anims' = Without(anims, a)
    /\ LET r == afterAnimation(anims[a].lastItems, anims[a].counter, timers,
                               animationTimeout, isShowDefaultItemBefore)
       IN  Apply([r EXCEPT !.timers = Folded(r.timers)], "done")
    /\ advances' = IF advances # NoCycle /\ advances < Len(items)
                   THEN advances + 1 ELSE NoCycle
    /\ UNCHANGED <<phase, items, defaultItem, isAnimationEnabled, startIndex,
                   calls>>

\* a collection that shares only one item with the collection before it
OtherItems == <<AllItems[2], AllItems[3]>>
Handles == 1..(MaxCalls + 1)

NextLive ==
    \/ Mount
    \/ \E its \in ItemLists \cup {OtherItems} : ItemsChange(its)
    \/ \E en \in BOOLEAN : PropsChange(en)
    \/ onStartOver
    \/ Clear
    \/ Unmount
    \/ \E t \in DOMAIN timers : beginAnimation(t)
    \/ \E a \in DOMAIN anims : AnimationDoneCyclic(a)

\* every pending timer fires and every running animation completes
Fairness ==
    /\ \A t \in Handles : WF_vars(beginAnimation(t))
    /\ \A a \in Handles : WF_vars(AnimationDoneCyclic(a))

\* the rotation does not depend on where it starts: startIndex is the default
InitLive == Init /\ startIndex = 0

SpecLive == InitLive /\ [][NextLive]_vars /\ Fairness

\* ------------------------------------------------------ the specification's terms
\* rotation(items, k) = items[k:] ++ items[:k], k taken modulo the length
Rotation(its, k) ==
    [i \in 1..Len(its) |-> its[((i - 1 + k) % Len(its)) + 1]]

Elements(xs) == {xs[i] : i \in 1..Len(xs)}
InitOps == {"mount", "items", "startOver"}
Notified == onShowCall.by # "none"

\* ------------------------------------------------------------------- C1
\* C1: in every reachable state at most one scheduled-advance timer is
\* outstanding.
C1_AtMostOneTimer == Cardinality(DOMAIN timers) <= 1

\* ------------------------------------------------------------------- C2
\* C2: in every reachable state at most one slide transition (an animation
\* started by beginAnimation whose completion callback has not run) is in
\* flight.
C2_AtMostOneTransition == Cardinality(DOMAIN anims) <= 1

\* ------------------------------------------------------------------- C3
\* C3: every onShow(item, counter) call, from init or from a completion
\* callback, has 0 <= counter < len(items) for the current items.
C3_CounterInRange ==
    Notified => (0 <= onShowCall.counter /\ onShowCall.counter < Len(items))

\* ------------------------------------------------------------------- C4
\* C4: the counter reported to the observer is the index of the visible
\* item: a call onShow(item, c) made for the current item collection (the
\* window holds exactly its elements) has item = items[c mod len(items)].
C4_CounterIsIndexOfVisible ==
    (Notified /\ Len(items) > 0 /\ Elements(copiedItems) = Elements(items)
        /\ Len(copiedItems) = Len(items))
    => onShowCall.item = items[(onShowCall.counter % Len(items)) + 1]

\* ------------------------------------------------------------------- C5
\* C5: startOver() with non-empty items leaves items[startIndex mod
\* len(items)] as the visible item (the first element of the window), in
\* whatever state it is called.
C5_StartOverResetsVisible ==
    (lastOp = "startOver" /\ Len(items) > 0)
    => /\ Len(copiedItems) > 0
       /\ copiedItems[1] = Rotation(items, startIndex)[1]

\* ------------------------------------------------------------------- C6
\* C6: when the animation armed for the window [D] ++ rotation(items,
\* startIndex) completes, the default item is dropped, the flag is cleared,
\* the window is rotation(items, startIndex) and the observer is called
\* with (items[startIndex mod len(items)], startIndex).
C6_FallbackCompletion ==
    [][\A a \in DOMAIN anims :
          (/\ AnimationDone(a)
           /\ Len(items) > 0
           /\ defaultItem # NoItem
           /\ anims[a].lastItems = <<defaultItem>> \o Rotation(items, startIndex))
          => /\ copiedItems' = Rotation(items, startIndex)
             /\ ~isShowDefaultItemBefore'
             /\ onShowCall' = [by |-> "completion",
                               item |-> Rotation(items, startIndex)[1],
                               counter |-> startIndex]]_vars

\* ------------------------------------------------------------------- C7
\* C7: an initialization that runs with animation disabled and non-empty
\* items sets the window to rotation(items, startIndex), calls onShow with
\* its first element and arms no timer.
C7_StaticWhenDisabled ==
    (lastOp \in InitOps /\ ~isAnimationEnabled /\ Len(items) > 0)
    => /\ copiedItems = Rotation(items, startIndex)
       /\ onShowCall.by = "init"
       /\ onShowCall.item = Rotation(items, startIndex)[1]
       /\ animationTimeout = NULL

\* ------------------------------------------------------------------- C8
\* C8: while isAnimationEnabled is false no automatic advance occurs: no
\* completion callback rotates the window or calls onShow.
C8_NoAdvanceWhenDisabled == lastOp = "done" => isAnimationEnabled

C10_ClearCancelsAll ==
    [][(lastOp = "clear" /\ lastOp' \notin {"items", "startOver", "clear",
                                             "props", "unmount"})
       => /\ lastOp' \notin {"timer", "done"}
          /\ copiedItems' = copiedItems
          /\ onShowCall' = NoCall]_vars

\* ------------------------------------------------------------------ C11
\* C11: after the unmount no timer is pending and onShow is not called any
\* more, whatever the component was doing when it was unmounted.
C11_QuietAfterUnmount ==
    phase = "unmounted" => (DOMAIN timers = {} /\ ~Notified)

\* ------------------------------------------------------------------ C12
\* C12: clear() cancels the timer held in animationTimeout and changes
\* nothing else: the window, the flag, the ref and the running animations
\* stay, onShow is not called; it is enabled with nothing pending, and a
\* second clear() right after it changes nothing at all.
C12_ClearOnlyCancelsTimer ==
    [][lastOp' = "clear"
       => /\ copiedItems' = copiedItems
          /\ isShowDefaultItemBefore' = isShowDefaultItemBefore
          /\ animationTimeout' = animationTimeout
          /\ anims' = anims
          /\ items' = items
          /\ onShowCall' = NoCall
          /\ DOMAIN timers' = DOMAIN timers \ {animationTimeout}
          /\ \A t \in DOMAIN timers' : timers'[t] = timers[t]
          /\ (lastOp = "clear" => timers' = timers)]_vars

\* a clear() that cancelled the pending timer, after which the window that
\* init computed is still there
C12_Witness ==
    /\ lastOp = "clear"
    /\ animationTimeout # NULL
    /\ animationTimeout \notin DOMAIN timers
    /\ Len(copiedItems) >= 2

\* ------------------------------------------------------------------ C13
\* C13: an initialization that runs with empty items and a default item D
\* leaves the window [D] and the flag set, calls no onShow and leaves no
\* timer pending.
C13_DefaultShownSilently ==
    (lastOp \in InitOps /\ Len(items) = 0 /\ defaultItem # NoItem)
    => /\ copiedItems = <<defaultItem>>
       /\ isShowDefaultItemBefore
       /\ ~Notified
       /\ DOMAIN timers = {}

\* ------------------------------------------------------------------ C14
\* C14: an initialization that runs with empty items and no default item
\* leaves an empty window, calls no onShow and arms no timer.
C14_NothingShown ==
    (lastOp \in InitOps /\ Len(items) = 0 /\ defaultItem = NoItem)
    => /\ copiedItems = <<>>
       /\ ~Notified
       /\ animationTimeout = NULL

\* ------------------------------------------------------------------ C15
\* C15: for non-empty items and any startIndex s, the window init computes
\* (after the default item it may put in front) is the cyclic rotation of
\* items that starts at items[((s % n) + n) % n], a permutation of items.
InitWindow ==
    IF isShowDefaultItemBefore /\ defaultItem # NoItem
    THEN IF Len(copiedItems) > 0 /\ copiedItems[1] = defaultItem
         THEN SubSeq(copiedItems, 2, Len(copiedItems))
         ELSE <<>>
    ELSE copiedItems

C15_InitWindowIsRotation ==
    (lastOp \in InitOps /\ Len(items) > 0 /\ isAnimationEnabled)
    => LET n == Len(items)
           k == ((JSRem(startIndex, n) + n) % n)
       IN  /\ Len(InitWindow) = n
           /\ \A i \in 1..n : InitWindow[i] = items[((k + i - 1) % n) + 1]
           /\ Elements(InitWindow) = Elements(items)

\* an initialization with a negative start index and two items
C15_Witness ==
    /\ lastOp \in InitOps
    /\ isAnimationEnabled
    /\ Len(items) = 2
    /\ startIndex < 0
    /\ copiedItems = <<items[2], items[1]>>

\* ------------------------------------------------------------------ C16
\* C16: when the n-th completion since an initialization that called onShow
\* has run, with n = len(items) >= 2 and no call by the owner in between,
\* the visible item is the one that initialization notified and the counter
\* notified equals the initial counter modulo n.
C16_FullCycle ==
    (lastOp = "done" /\ Len(items) >= 2 /\ advances = Len(items))
    => /\ Len(copiedItems) > 0
       /\ copiedItems[1] = Rotation(items, startIndex)[1]
       /\ onShowCall.item = Rotation(items, startIndex)[1]
       /\ (onShowCall.counter - startIndex) % Len(items) = 0

\* ------------------------------------------------------------------ C17
\* C17: once mounted, the window is [D] (items empty), or D followed by a
\* cyclic shift of the current items while the flag is set, or a cyclic
\* shift of the current items.
IsShiftOf(win, its) ==
    /\ Len(its) > 0
    /\ \E k \in 0..(Len(its) - 1) : win = Rotation(its, k)

C17_WindowIsShiftOfItems ==
    phase = "mounted"
    => \/ Len(items) = 0 /\ defaultItem # NoItem
          /\ copiedItems = <<defaultItem>>
       \/ Len(items) = 0 /\ defaultItem = NoItem /\ copiedItems = <<>>
       \/ /\ isShowDefaultItemBefore
          /\ defaultItem # NoItem
          /\ Len(copiedItems) > 0
          /\ copiedItems[1] = defaultItem
          /\ IsShiftOf(SubSeq(copiedItems, 2, Len(copiedItems)), items)
       \/ IsShiftOf(copiedItems, items)

\* ------------------------------------------------------------------ C18
\* C18: the flag is set only while the default item is shown for empty
\* items, or while the window still is D followed by the rotation of the
\* current items (the fallback transition has not completed).
C18_FlagOnlyWhileDefaultShown ==
    isShowDefaultItemBefore
    => \/ Len(items) = 0 /\ copiedItems = <<defaultItem>>
       \/ /\ Len(items) > 0
          /\ copiedItems = <<defaultItem>> \o Rotation(items, startIndex)

\* ------------------------------------------------------------------ C19
\* C19: right after an initialization every timer armed before it is gone:
\* the only timer that may be pending is the one the initialization armed.
C19_CancelBeforeArm ==
    lastOp \in InitOps => DOMAIN timers \subseteq {animationTimeout}

\* ------------------------------------------------------------------ C20
\* C20: with animation enabled, at least two items and no further call by
\* the owner, if every pending timer fires and every running animation
\* completes, then after a timer has fired a completion that calls onShow
\* and re-arms the timer follows, and every item of the collection is the
\* visible item again and again.
TimerFiredForGood ==
    /\ lastOp = "timer"
    /\ phase = "mounted"
    /\ calls = MaxCalls
    /\ isAnimationEnabled
    /\ Len(items) >= 2

\* the rotation is running and the owner makes no further call
Rotating ==
    /\ phase = "mounted"
    /\ calls = MaxCalls
    /\ isAnimationEnabled
    /\ Len(items) >= 2
    /\ (DOMAIN timers # {} \/ DOMAIN anims # {})

Visible(x) == Len(copiedItems) > 0 /\ copiedItems[1] = x

C20_RotationNeverStalls ==
    /\ TimerFiredForGood ~> (lastOp = "done" /\ Notified
                             /\ animationTimeout \in DOMAIN timers)
    /\ \A x \in Elements(AllItems) :
          []<>((Rotating /\ x \in Elements(items)) => Visible(x))
====
